---- MODULE Spec2Model ----
(***************************************************************************)
(* The query cache of yew-query-core: QueryClient (client.rs), Query       *)
(* (query.rs), the retrying fetch executor fetch_with_retry (client.rs)    *)
(* and the refetch Interval (time/interval.rs), as one state machine.      *)
(*                                                                         *)
(* Execution is single threaded and cooperative: every action is the code  *)
(* a task runs between two suspension points (awaits).                     *)
(***************************************************************************)
EXTENDS Integers, Sequences, FiniteSets, TLC

\* ---------------------------------------------------------------- bounds
MaxTime == 2          \* the clock stops here
MaxCalls == 2         \* suspended calls (fetch_query, refetch_query, scheduler ticks) ever issued
MaxRuns == 2          \* executions of fetch_with_retry ever started
MaxQueries == 2       \* Query objects ever constructed
MaxIntervals == 2     \* Interval timers ever constructed
MaxInvocations == 3   \* invocations of the fetch function in one execution
MaxEvents == 5        \* events delivered to the handler of one Query

\* ------------------------------------------------------- Option<T>, Result
None == <<>>
Some(x) == <<x>>
IsSome(o) == o # <<>>
Unwrap(o) == o[1]

Types == {"T", "U"}
Names == {"a"}
QueryKeys == [key : Names, ty : Types]

\* The payload of a value or of an error of the fetch function names the
\* invocation that produced it, <<execution, attempt>>: two invocations never
\* return equal payloads. <<0, n>> is the n-th value a caller may write.
SetValues == {<<0, 1>>}

\* an Rc<dyn Any>: the payload and the TypeId of its concrete type
AnyValue(ty, v) == [ty |-> ty, v |-> v]
NoValue == [ty |-> "-", v |-> <<0, 0>>]

\* Error: a QueryError, or the error of the fetch function
QueryError(kind) == [kind |-> kind, at |-> <<0, 0>>]
FetchError(at) == [kind |-> "Fetch", at |-> at]
NoError == [kind |-> "-", at |-> <<0, 0>>]

Ok(x) == [ok |-> TRUE, val |-> x, err |-> NoError]
Err(e) == [ok |-> FALSE, val |-> NoValue, err |-> e]
NoResult == [ok |-> FALSE, val |-> NoValue, err |-> NoError]

\* Rc<dyn Any>::downcast::<T>()
Downcast(x, T) == IF x.ty = T THEN Ok(x) ELSE Err(QueryError("TypeMismatch"))

\* a Retry: the factory of a delay iterator; take(n) of repeat(d), or repeat(d)
Policy(inf, n, d) == [inf |-> inf, n |-> n, d |-> d]
Retries == {None, Some(Policy(FALSE, 0, 1)), Some(Policy(FALSE, 1, 1)),
            Some(Policy(FALSE, 2, 0)), Some(Policy(TRUE, 0, 1))}

\* QueryOptions
QueryOptions(cache_time, refetch_time, retry) ==
    [cache_time |-> cache_time, refetch_time |-> refetch_time, retry |-> retry]

\* the clients built by QueryClientBuilder
ClientOptions ==
    {QueryOptions(None, None, r) : r \in Retries}
    \cup {QueryOptions(Some(2), None, None),
          QueryOptions(Some(2), None, Some(Policy(FALSE, 1, 1))),
          QueryOptions(Some(2), Some(1), None),
          QueryOptions(None, Some(1), None)}

\* QueryState
Idle == [tag |-> "Idle", err |-> NoError]
Loading == [tag |-> "Loading", err |-> NoError]
Ready == [tag |-> "Ready", err |-> NoError]
Failed(e) == [tag |-> "Failed", err |-> e]

\* QueryChanged
QueryChanged(value, state, is_fetching) ==
    [value |-> value, state |-> state, is_fetching |-> is_fetching]

VARIABLES
    now,        \* Instant::now()
    options,    \* QueryClient.options
    cache,      \* QueryClient.cache: QueryKey -> Option<Query>
    queries,    \* the Query objects (Arc<RwLock<Inner>>), by identity
    runs,       \* the executions of fetch_with_retry, by identity
    intervals,  \* the Interval timer tasks, by identity
    calls,      \* the calls that suspended at an await, by identity
    stores      \* the QueryCache implementations of cache.rs, side by side

vars == <<now, options, cache, queries, runs, intervals, calls, stores>>

\* The operations are functions of the state s they run in; St is the state
\* the program is in.
St == [now |-> now, cache |-> cache, queries |-> queries, runs |-> runs,
       intervals |-> intervals, calls |-> calls]

\* what an operation leaves: the state, what it returned (NoResult while it is
\* suspended) and the call it suspended as (0: it returned)
Out(s, res, call) == [st |-> s, res |-> res, call |-> call]

\* ----------------------------------------------------------- Shared future
InitialFuture == [kind |-> "initial", id |-> 0, val |-> NoValue]
RunFuture(r) == [kind |-> "run", id |-> r, val |-> NoValue]
ValueFuture(x) == [kind |-> "value", id |-> 0, val |-> x]

\* peek that takes a future resolved to an error for one still pending
PeekIsNone_unless_ok(s, fov) ==
    \/ fov.kind = "initial"
    \/ fov.kind = "run" /\ (s.runs[fov.id].pc # "done" \/ ~s.runs[fov.id].ret.ok)

\* Shared::peek().is_none()
PeekIsNone(s, fov) ==
    \/ fov.kind = "initial"
    \/ fov.kind = "run" /\ s.runs[fov.id].pc # "done"

\* ------------------------------------------------------------------- Query
Query_is_fetching(s, q) == PeekIsNone(s, s.queries[q].future_or_value)

Query_last_value(s, q) == s.queries[q].last_value

\* is_stale that compares the clock, not the age of the value, with cache_time
Query_is_stale_clock(s, q) ==
    LET updated_at == s.queries[q].updated_at
        cache_time == s.queries[q].cache_time
    IN  IF updated_at = None THEN FALSE
        ELSE IF cache_time = None THEN FALSE
        ELSE s.now >= Unwrap(cache_time)

\* is_stale with > for >=
Query_is_stale_after(s, q) ==
    LET updated_at == s.queries[q].updated_at
        cache_time == s.queries[q].cache_time
    IN  IF updated_at = None THEN FALSE
        ELSE IF cache_time = None THEN FALSE
        ELSE (s.now - Unwrap(updated_at)) > Unwrap(cache_time)

\* is_stale that is false unless the state is Ready
Query_is_stale_ready_only(s, q) ==
    LET updated_at == s.queries[q].updated_at
        cache_time == s.queries[q].cache_time
    IN  IF s.queries[q].state # Ready THEN FALSE
        ELSE IF updated_at = None THEN FALSE
        ELSE IF cache_time = None THEN FALSE
        ELSE (s.now - Unwrap(updated_at)) >= Unwrap(cache_time)

Query_is_stale(s, q) ==
    LET updated_at == s.queries[q].updated_at
        cache_time == s.queries[q].cache_time
    IN  IF updated_at = None THEN FALSE
        ELSE IF cache_time = None THEN FALSE
        ELSE (s.now - Unwrap(updated_at)) >= Unwrap(cache_time)

\* Query::new; key is the key the client stores it under
Query_new(key, f, T, retrier, cache_time, refetch_time) ==
    [key |-> key,
     type_id |-> T,
     fetcher |-> f,
     retrier |-> retrier,
     cache_time |-> cache_time,
     refetch_time |-> refetch_time,
     future_or_value |-> InitialFuture,
     state |-> Idle,
     last_value |-> None,
     updated_at |-> None,
     interval |-> None,
     on_change |-> FALSE,
     events |-> <<>>]

\* Query::new with Some(on_change): the handler is called with the Idle event;
\* events is what the handler has been called with, in order
Query_new_observed(key, f, T, retrier, cache_time, refetch_time) ==
    [Query_new(key, f, T, retrier, cache_time, refetch_time)
        EXCEPT !.on_change = TRUE,
               !.events = <<QueryChanged(None, Idle, FALSE)>>]

\* send_event that does not stamp updated_at
send_event_unstamped(s, q, event) ==
    [s EXCEPT !.queries[q] =
        [@ EXCEPT !.events = IF s.queries[q].on_change THEN Append(@, event) ELSE @,
                  !.last_value = event.value,
                  !.state = event.state]]

\* send_event that does not call the handler
send_event_unheard(s, q, event) ==
    [s EXCEPT !.queries[q] =
        [@ EXCEPT !.updated_at = IF event.state.tag = "Ready" THEN Some(s.now) ELSE @,
                  !.last_value = event.value,
                  !.state = event.state]]

\* Query::send_event with notify_all = true, on the query q
send_event(s, q, event) ==
    [s EXCEPT !.queries[q] =
        [@ EXCEPT !.events = IF s.queries[q].on_change THEN Append(@, event) ELSE @,
                  !.updated_at = IF event.state.tag = "Ready" THEN Some(s.now) ELSE @,
                  !.last_value = event.value,
                  !.state = event.state]]

\* ------------------------------------------------------- fetch_with_retry
\* the execution right after its first poll: fetcher.get() has been invoked
NewRun(f, T, retrier) ==
    [fn |-> f, ty |-> T, retrier |-> retrier,
     pc |-> "running",
     iter |-> Policy(FALSE, 0, 0),
     wake |-> 0,
     invocations |-> 1,
     delays |-> 0,
     ret |-> NoResult,
     first_ok |-> None]

\* Iterator::next() of the delay iterator
\* an iterator that stops one delay early
IterHasNext_short(it) == it.inf \/ it.n > 1
IterHasNext(it) == it.inf \/ it.n > 0
IterAdvance(it) == IF it.inf THEN it ELSE [it EXCEPT !.n = @ - 1]

\* what the attempt in progress of the execution run returns: the payload
\* names the execution r and the attempt
Outcome(r, run, ok) ==
    IF ok THEN Ok(AnyValue(run.ty, <<r, run.invocations>>))
    ELSE Err(FetchError(<<r, run.invocations>>))

\* fetch_with_retry at the time t the attempt it awaits returns res: it
\* returns (done) or sleeps for the next delay of the policy
fetch_with_retry(run, res, t) ==
    LET seen == [run EXCEPT !.ret = res,
                            !.first_ok = IF @ = None /\ res.ok THEN Some(res) ELSE @]
        it == IF run.invocations = 1
              THEN (IF IsSome(run.retrier) THEN Unwrap(run.retrier) ELSE Policy(FALSE, 0, 0))
              ELSE run.iter
    IN  IF run.invocations = 1 /\ res.ok
        THEN [seen EXCEPT !.pc = "done"]
        ELSE IF IterHasNext(it)
             THEN [seen EXCEPT !.pc = "sleeping", !.iter = IterAdvance(it),
                               !.wake = t + it.d, !.delays = @ + 1]
             ELSE [seen EXCEPT !.pc = "done", !.iter = it]

\* the state after the attempt of execution r returned
AttemptReturns(s, r, ok) ==
    [s EXCEPT !.runs[r] = fetch_with_retry(@, Outcome(r, @, ok), s.now)]

\* ------------------------------------------------ Query::fetch, set_value
\* Query::fetch that sends the Loading event whether or not there is a value
Query_fetch_start_loading(s, q) ==
    LET r == Len(s.runs) + 1
        s1 == send_event(s, q, QueryChanged(s.queries[q].last_value, Loading, TRUE))
        e == s1.queries[q]
        s2 == [s1 EXCEPT !.queries[q].future_or_value = RunFuture(r),
                         !.runs = Append(@, NewRun(e.fetcher, e.type_id, e.retrier))]
    IN  IF e.on_change
        THEN send_event(s2, q, QueryChanged(e.last_value, e.state, TRUE))
        ELSE s2

\* Query::fetch up to its await: the Loading event of a query without a value,
\* the new shared future, the notification of a registered handler; the
\* future is polled, which invokes the fetch function
Query_fetch_start(s, q) ==
    LET r == Len(s.runs) + 1
        s1 == IF s.queries[q].last_value = None
              THEN send_event(s, q, QueryChanged(None, Loading, TRUE))
              ELSE s
        e == s1.queries[q]
        s2 == [s1 EXCEPT !.queries[q].future_or_value = RunFuture(r),
                         !.runs = Append(@, NewRun(e.fetcher, e.type_id, e.retrier))]
    IN  IF e.on_change
        THEN send_event(s2, q, QueryChanged(e.last_value, e.state, TRUE))
        ELSE s2

\* Interval::new of the atomic implementation: the timer task starts asleep
Interval_new(q, T, duration, t) ==
    [q |-> q, ty |-> T, duration |-> duration, cancel |-> FALSE,
     wake |-> t + duration, alive |-> TRUE]

\* queue_refetch that arms no timer
queue_refetch_unarmed(s, q, T) == s

\* queue_refetch that installs the new timer without cancelling the old one
queue_refetch_leaks(s, q, T) ==
    LET e == s.queries[q]
    IN  IF IsSome(e.refetch_time)
        THEN [s EXCEPT !.queries[q].interval = Some(Len(s.intervals) + 1),
                       !.intervals = Append(@, Interval_new(q, T, Unwrap(e.refetch_time), s.now))]
        ELSE s

\* Query::queue_refetch
queue_refetch(s, q, T) ==
    LET e == s.queries[q]
    IN  IF IsSome(e.refetch_time)
        THEN LET cancelled == IF IsSome(e.interval)
                              THEN [s.intervals EXCEPT ![Unwrap(e.interval)].cancel = TRUE]
                              ELSE s.intervals
             IN  [s EXCEPT !.queries[q].interval = Some(Len(s.intervals) + 1),
                           !.intervals = Append(cancelled,
                                Interval_new(q, T, Unwrap(e.refetch_time), s.now))]
        ELSE s

\* Query::fetch that cancels the entry's timer when the fetch fails
Query_fetch_finish_stops(s, q, T, result) ==
    IF ~result.ok
    THEN LET failed == send_event(s, q, QueryChanged(s.queries[q].last_value,
                                                     Failed(result.err), FALSE))
         IN  Out(IF IsSome(s.queries[q].interval)
                 THEN [failed EXCEPT !.intervals[Unwrap(s.queries[q].interval)].cancel = TRUE]
                 ELSE failed,
                 result, 0)
    ELSE LET armed == queue_refetch(s, q, T)
             ret == Downcast(result.val, T)
         IN  IF ~ret.ok
             THEN Out(armed, ret, 0)
             ELSE Out(send_event(armed, q, QueryChanged(Some(ret.val), Ready, FALSE)), ret, 0)

\* Query::fetch whose Failed event carries no value
Query_fetch_finish_forgets(s, q, T, result) ==
    IF ~result.ok
    THEN Out(send_event(s, q, QueryChanged(None, Failed(result.err), FALSE)), result, 0)
    ELSE LET armed == queue_refetch(s, q, T)
             ret == Downcast(result.val, T)
         IN  IF ~ret.ok
             THEN Out(armed, ret, 0)
             ELSE Out(send_event(armed, q, QueryChanged(Some(ret.val), Ready, FALSE)), ret, 0)

\* Query::fetch after its await returned result
\* a continuation that leaves the entry alone when a value was written to it
\* after the fetch started
Query_fetch_finish_last_request(s, q, T, result) ==
    IF ~result.ok
    THEN Out(send_event(s, q, QueryChanged(s.queries[q].last_value, Failed(result.err), FALSE)),
             result, 0)
    ELSE LET armed == queue_refetch(s, q, T)
             ret == Downcast(result.val, T)
         IN  IF ~ret.ok \/ s.queries[q].future_or_value.kind = "value"
             THEN Out(armed, ret, 0)
             ELSE Out(send_event(armed, q, QueryChanged(Some(ret.val), Ready, FALSE)), ret, 0)

Query_fetch_finish(s, q, T, result) ==
    IF ~result.ok
    THEN Out(send_event(s, q, QueryChanged(s.queries[q].last_value, Failed(result.err), FALSE)),
             result, 0)
    ELSE LET armed == queue_refetch(s, q, T)
             ret == Downcast(result.val, T)
         IN  IF ~ret.ok
             THEN Out(armed, ret, 0)
             ELSE Out(send_event(armed, q, QueryChanged(Some(ret.val), Ready, FALSE)), ret, 0)

\* Query::future after its await returned result
Query_future_finish(T, result) ==
    IF result.ok THEN Downcast(result.val, T) ELSE result

\* set_value that replaces the future and sends no event
Query_set_value_silent(s, q, T, value) ==
    queue_refetch([s EXCEPT !.queries[q].future_or_value = ValueFuture(value)], q, T)

\* set_value that keeps the time of last update of an entry that has one
Query_set_value_keeps_stamp(s, q, T, value) ==
    LET s1 == [s EXCEPT !.queries[q].future_or_value = ValueFuture(value)]
        s2 == send_event(s1, q, QueryChanged(Some(value), Ready, FALSE))
        s3 == IF IsSome(s.queries[q].updated_at)
              THEN [s2 EXCEPT !.queries[q].updated_at = s.queries[q].updated_at]
              ELSE s2
    IN  queue_refetch(s3, q, T)

\* Query::set_value past assert_type
Query_set_value(s, q, T, value) ==
    LET s1 == [s EXCEPT !.queries[q].future_or_value = ValueFuture(value)]
        s2 == send_event(s1, q, QueryChanged(Some(value), Ready, FALSE))
    IN  queue_refetch(s2, q, T)

\* ----------------------------------------------- Arc strong count and Drop
\* the clones of Query q that are alive: the cache's, those of suspended calls,
\* those captured by the closures of running timer tasks
StrongCount(s, q) ==
    Cardinality({k \in QueryKeys : s.cache[k] = Some(q)})
    + Cardinality({i \in 1..Len(s.calls) : s.calls[i].pending /\ s.calls[i].q = q})
    + Cardinality({i \in 1..Len(s.intervals) : s.intervals[i].alive /\ s.intervals[i].q = q})

\* Drop for Query, in the state s the dropped clones are already gone from:
\* the last clone of a query cancels its interval
Query_drop(s, dropped) ==
    [s EXCEPT !.intervals =
        [i \in 1..Len(s.intervals) |->
            IF \E q \in dropped : StrongCount(s, q) = 0 /\ s.queries[q].interval = Some(i)
            THEN [s.intervals[i] EXCEPT !.cancel = TRUE]
            ELSE s.intervals[i]]]

\* ------------------------------------------ the RefCell of the cache store
\* what the code of an operation does with self.cache, in order, up to the
\* await it suspends at: borrow(), borrow_mut(), the end of the guard's life
\* (drop(cache) or the end of its block)
CachePath_refetch_holds(op, mode) ==
    IF op = "tick" THEN <<"await">>
    ELSE IF op = "refetch_query" THEN <<"borrow_mut", "await">>
    ELSE IF mode = "owner" THEN <<"borrow", "drop", "borrow_mut", "drop", "await">>
    ELSE <<"borrow", "drop", "await">>

CachePath(op, mode) ==
    IF op = "tick" THEN <<"await">>
    ELSE IF op = "refetch_query" THEN <<"borrow_mut", "drop", "await">>
    ELSE IF mode = "owner" THEN <<"borrow", "drop", "borrow_mut", "drop", "await">>
    ELSE <<"borrow", "drop", "await">>

\* the guards alive after the events of path, the latest last
RECURSIVE Guards(_)
Guards(path) ==
    IF path = <<>> THEN <<>>
    ELSE LET before == Guards(SubSeq(path, 1, Len(path) - 1))
             event == path[Len(path)]
         IN  IF event = "drop" THEN SubSeq(before, 1, Len(before) - 1)
             ELSE IF event = "await" THEN before
             ELSE Append(before, event)

\* the borrow of the cache a call holds while it is suspended
HeldAtAwait(path) ==
    IF "borrow_mut" \in {Guards(path)[i] : i \in 1..Len(Guards(path))} THEN "mut"
    ELSE IF Guards(path) # <<>> THEN "shared"
    ELSE "none"

\* RefCell::borrow() (exclusive = FALSE) or borrow_mut() (TRUE) in the state s
\* panics: a suspended call holds a conflicting guard
BorrowPanics(s, exclusive) ==
    \E c \in 1..Len(s.calls) :
        /\ s.calls[c].pending
        /\ \/ s.calls[c].borrow = "mut"
           \/ exclusive /\ s.calls[c].borrow = "shared"

\* ------------------------------------------------------------ QueryClient
\* a suspended call: the operation, its key (a tick: the key its query was
\* stored under) and type, how it awaits (owner: in Query::fetch, joiner: in
\* Query::future, direct: fetch_with_retry itself), its Query clone, the
\* execution it awaits
Call(op, key, T, mode, q, r) ==
    [op |-> op, key |-> key, ty |-> T, mode |-> mode, q |-> q, run |-> r,
     pending |-> TRUE, res |-> NoResult,
     borrow |-> HeldAtAwait(CachePath(op, mode))]

\* the operation suspends at its await of execution r
Suspend(s, op, key, T, mode, q, r) ==
    Out([s EXCEPT !.calls = Append(@, Call(op, key, T, mode, q, r))],
        NoResult, Len(s.calls) + 1)

Option_or(a, b) == IF IsSome(a) THEN a ELSE b

QueryClient_is_stale(s, key) ==
    IF IsSome(s.cache[key]) THEN Query_is_stale(s, Unwrap(s.cache[key])) ELSE FALSE

QueryClient_is_fetching(s, key) ==
    IF IsSome(s.cache[key]) THEN ~Query_is_fetching(s, Unwrap(s.cache[key])) ELSE FALSE

\* contains_query that reports only the entries that are not stale
QueryClient_contains_query_fresh(s, key) ==
    IsSome(s.cache[key]) /\ ~Query_is_stale(s, Unwrap(s.cache[key]))

QueryClient_contains_query(s, key) == IsSome(s.cache[key])

\* QueryClient::get_query(key): the entry, by identity
QueryClient_get_query(s, key) == s.cache[key]

\* QueryClient::has_query_data(key)
QueryClient_has_query_data(s, key) ==
    IF IsSome(QueryClient_get_query(s, key))
    THEN ~Query_is_stale(s, Unwrap(QueryClient_get_query(s, key)))
    ELSE FALSE

\* QueryClient::get_query_state(key)
QueryClient_get_query_state(s, key) ==
    IF IsSome(s.cache[key]) /\ ~Query_is_stale(s, Unwrap(s.cache[key]))
    THEN Some(s.queries[Unwrap(s.cache[key])].state)
    ELSE None

\* QueryClient::get_query_data::<T>; a failed unwrap is the error "panic"
QueryClient_get_query_data(s, key, T) ==
    IF key.ty # T THEN Err(QueryError("TypeMismatch"))
    ELSE IF s.cache[key] = None THEN Err(QueryError("KeyNotFound"))
    ELSE IF Query_is_stale(s, Unwrap(s.cache[key])) THEN Err(QueryError("StaleValue"))
    ELSE LET last_value == Query_last_value(s, Unwrap(s.cache[key]))
         IN  IF last_value = None
             THEN Err(QueryError("TypeMismatch"))   \* NotReady, rewritten by the map_err
             ELSE IF Downcast(Unwrap(last_value), T).ok
                  THEN Ok(Unwrap(last_value))
                  ELSE Err(QueryError("panic"))

\* fetch_query_with_options that stores an entry whether or not there is a
\* cache_time
QueryClient_fetch_query_stores(s, key, T, f, qopts) ==
    LET hit == s.cache[key]
        cached == IsSome(hit) /\ ~Query_is_stale(s, Unwrap(hit))
                              /\ IsSome(Query_last_value(s, Unwrap(hit)))
        joins == IsSome(hit) /\ ~cached /\ Query_is_fetching(s, Unwrap(hit))
        arg(field) == IF IsSome(qopts) THEN Unwrap(qopts)[field] ELSE None
        cache_time == Option_or(options.cache_time, arg("cache_time"))
        refetch_time == Option_or(options.refetch_time, arg("refetch_time"))
        retry == Option_or(options.retry, arg("retry"))
    IN  IF cached
        THEN Out(s, Downcast(Unwrap(Query_last_value(s, Unwrap(hit))), T), 0)
        ELSE IF joins
        THEN IF s.queries[Unwrap(hit)].type_id # T
             THEN Out(s, Err(QueryError("TypeMismatch")), 0)
             ELSE Suspend(s, "fetch_query", key, T, "joiner", Unwrap(hit),
                          s.queries[Unwrap(hit)].future_or_value.id)
        ELSE LET q == IF IsSome(hit) THEN Unwrap(hit) ELSE Len(s.queries) + 1
                 s1 == IF IsSome(hit) THEN s
                       ELSE [s EXCEPT !.queries = Append(@, Query_new(key, f, T, retry,
                                                                      cache_time, refetch_time)),
                                      !.cache[key] = Some(q)]
             IN  IF s1.queries[q].type_id # T
                 THEN Out(s1, Err(QueryError("TypeMismatch")), 0)
                 ELSE Suspend(Query_fetch_start(s1, q), "fetch_query", key, T,
                              "owner", q, Len(s.runs) + 1)

\* QueryClient::fetch_query_with_options::<T>(key, f, qopts), up to its first await
QueryClient_fetch_query(s, key, T, f, qopts) ==
    LET hit == s.cache[key]
        cached == IsSome(hit) /\ ~Query_is_stale(s, Unwrap(hit))
                              /\ IsSome(Query_last_value(s, Unwrap(hit)))
        joins == IsSome(hit) /\ ~cached /\ Query_is_fetching(s, Unwrap(hit))
        arg(field) == IF IsSome(qopts) THEN Unwrap(qopts)[field] ELSE None
        cache_time == Option_or(options.cache_time, arg("cache_time"))
        refetch_time == Option_or(options.refetch_time, arg("refetch_time"))
        retry == Option_or(options.retry, arg("retry"))
    IN  IF cached
        THEN Out(s, Downcast(Unwrap(Query_last_value(s, Unwrap(hit))), T), 0)
        ELSE IF joins
        THEN IF s.queries[Unwrap(hit)].type_id # T
             THEN Out(s, Err(QueryError("TypeMismatch")), 0)
             ELSE Suspend(s, "fetch_query", key, T, "joiner", Unwrap(hit),
                          s.queries[Unwrap(hit)].future_or_value.id)
        ELSE IF cache_time = None
        THEN Suspend([s EXCEPT !.runs = Append(@, NewRun(f, T, retry))],
                     "fetch_query", key, T, "direct", 0, Len(s.runs) + 1)
        ELSE LET q == IF IsSome(hit) THEN Unwrap(hit) ELSE Len(s.queries) + 1
                 s1 == IF IsSome(hit) THEN s
                       ELSE [s EXCEPT !.queries = Append(@, Query_new(key, f, T, retry,
                                                                      cache_time, refetch_time)),
                                      !.cache[key] = Some(q)]
             IN  IF s1.queries[q].type_id # T
                 THEN Out(s1, Err(QueryError("TypeMismatch")), 0)
                 ELSE Suspend(Query_fetch_start(s1, q), "fetch_query", key, T,
                              "owner", q, Len(s.runs) + 1)

\* QueryClient::fetch_query_with_options_and_observe::<T>(key, f, qopts,
\* Some(on_change)), up to its first await: fetch_query_with_options, with the
\* handler given to the Query it creates
QueryClient_fetch_query_observe(s, key, T, f, qopts) ==
    LET hit == s.cache[key]
        cached == IsSome(hit) /\ ~Query_is_stale(s, Unwrap(hit))
                              /\ IsSome(Query_last_value(s, Unwrap(hit)))
        joins == IsSome(hit) /\ ~cached /\ Query_is_fetching(s, Unwrap(hit))
        arg(field) == IF IsSome(qopts) THEN Unwrap(qopts)[field] ELSE None
        cache_time == Option_or(options.cache_time, arg("cache_time"))
        refetch_time == Option_or(options.refetch_time, arg("refetch_time"))
        retry == Option_or(options.retry, arg("retry"))
    IN  IF cached
        THEN Out(s, Downcast(Unwrap(Query_last_value(s, Unwrap(hit))), T), 0)
        ELSE IF joins
        THEN IF s.queries[Unwrap(hit)].type_id # T
             THEN Out(s, Err(QueryError("TypeMismatch")), 0)
             ELSE Suspend(s, "fetch_query", key, T, "joiner", Unwrap(hit),
                          s.queries[Unwrap(hit)].future_or_value.id)
        ELSE IF cache_time = None
        THEN Suspend([s EXCEPT !.runs = Append(@, NewRun(f, T, retry))],
                     "fetch_query", key, T, "direct", 0, Len(s.runs) + 1)
        ELSE LET q == IF IsSome(hit) THEN Unwrap(hit) ELSE Len(s.queries) + 1
                 s1 == IF IsSome(hit) THEN s
                       ELSE [s EXCEPT !.queries = Append(@, Query_new_observed(key, f, T, retry,
                                                                cache_time, refetch_time)),
                                      !.cache[key] = Some(q)]
             IN  IF s1.queries[q].type_id # T
                 THEN Out(s1, Err(QueryError("TypeMismatch")), 0)
                 ELSE Suspend(Query_fetch_start(s1, q), "fetch_query", key, T,
                              "owner", q, Len(s.runs) + 1)

\* refetch_query that answers from the cache while the value is fresh
QueryClient_refetch_query_cached(s, key, T) ==
    LET hit == s.cache[key]
    IN  IF hit = None
        THEN Out(s, Err(QueryError("KeyNotFound")), 0)
        ELSE IF s.queries[Unwrap(hit)].type_id # T
        THEN Out(s, Err(QueryError("TypeMismatch")), 0)
        ELSE IF ~Query_is_stale(s, Unwrap(hit)) /\ IsSome(Query_last_value(s, Unwrap(hit)))
        THEN Out(s, Ok(Unwrap(Query_last_value(s, Unwrap(hit)))), 0)
        ELSE Suspend(Query_fetch_start(s, Unwrap(hit)), "refetch_query", key, T,
                     "owner", Unwrap(hit), Len(s.runs) + 1)

\* QueryClient::refetch_query::<T>(key), up to its await
QueryClient_refetch_query(s, key, T) ==
    LET hit == s.cache[key]
    IN  IF hit = None
        THEN Out(s, Err(QueryError("KeyNotFound")), 0)
        ELSE IF s.queries[Unwrap(hit)].type_id # T
        THEN Out(s, Err(QueryError("TypeMismatch")), 0)
        ELSE Suspend(Query_fetch_start(s, Unwrap(hit)), "refetch_query", key, T,
                     "owner", Unwrap(hit), Len(s.runs) + 1)

\* set_query_data that looks the entry up before it checks the key's type
QueryClient_set_query_data_lookup_first(s, key, T, v) ==
    IF s.cache[key] = None
    THEN Out(s, Err(QueryError("KeyNotFound")), 0)
    ELSE IF key.ty # T \/ s.queries[Unwrap(s.cache[key])].type_id # T
    THEN Out(s, Err(QueryError("TypeMismatch")), 0)
    ELSE Out(Query_set_value(s, Unwrap(s.cache[key]), T, AnyValue(T, v)), Ok(NoValue), 0)

\* QueryClient::set_query_data::<T>(key, value)
QueryClient_set_query_data(s, key, T, v) ==
    IF key.ty # T
    THEN Out(s, Err(QueryError("TypeMismatch")), 0)
    ELSE IF s.cache[key] = None
    THEN Out(s, Err(QueryError("KeyNotFound")), 0)
    ELSE IF s.queries[Unwrap(s.cache[key])].type_id # T
    THEN Out(s, Err(QueryError("TypeMismatch")), 0)
    ELSE Out(Query_set_value(s, Unwrap(s.cache[key]), T, AnyValue(T, v)), Ok(NoValue), 0)

\* remove_query_data that empties the store
QueryClient_remove_query_data_all(s, key) ==
    LET dropped == {Unwrap(s.cache[k]) : k \in {x \in QueryKeys : IsSome(s.cache[x])}}
    IN  Out(Query_drop([s EXCEPT !.cache = [k \in QueryKeys |-> None]], dropped),
            IF IsSome(s.cache[key]) THEN Ok(NoValue) ELSE NoResult, 0)

\* QueryClient::remove_query_data(key); it returns whether there was an entry
QueryClient_remove_query_data(s, key) ==
    LET dropped == IF IsSome(s.cache[key]) THEN {Unwrap(s.cache[key])} ELSE {}
    IN  Out(Query_drop([s EXCEPT !.cache[key] = None], dropped),
            IF IsSome(s.cache[key]) THEN Ok(NoValue) ELSE NoResult, 0)

\* QueryClient::clear_queries()
QueryClient_clear_queries(s) ==
    LET dropped == {Unwrap(s.cache[k]) : k \in {x \in QueryKeys : IsSome(s.cache[x])}}
    IN  Out(Query_drop([s EXCEPT !.cache = [k \in QueryKeys |-> None]], dropped), Ok(NoValue), 0)

\* ------------------------------------------------- the suspended calls go on
\* a continuation that stores the call's Query under the call's key again
Continue_restores(s, c) ==
    LET call == s.calls[c]
        result == s.runs[call.run].ret
        fin == IF call.mode = "owner" THEN Query_fetch_finish(s, call.q, call.ty, result)
               ELSE IF call.mode = "joiner" THEN Out(s, Query_future_finish(call.ty, result), 0)
               ELSE Out(s, result, 0)
        done == [fin.st EXCEPT !.calls[c].pending = FALSE, !.calls[c].res = fin.res,
                               !.cache[call.key] = IF call.q # 0 THEN Some(call.q) ELSE @]
    IN  Out(Query_drop(done, {call.q} \ {0}), fin.res, 0)

\* the code of the suspended call c that follows its await, once the
\* execution it awaits has returned
Continue(s, c) ==
    LET call == s.calls[c]
        result == s.runs[call.run].ret
        fin == IF call.mode = "owner" THEN Query_fetch_finish(s, call.q, call.ty, result)
               ELSE IF call.mode = "joiner" THEN Out(s, Query_future_finish(call.ty, result), 0)
               ELSE Out(s, result, 0)
        done == [fin.st EXCEPT !.calls[c].pending = FALSE, !.calls[c].res = fin.res]
    IN  Out(Query_drop(done, {call.q} \ {0}), fin.res, 0)

\* a timer task that reads the cancel flag only at the top of its loop, before
\* it sleeps: woken up, it calls the closure once more and ends afterwards
Interval_wake_late(s, i) ==
    LET iv == s.intervals[i]
    IN  Suspend([Query_fetch_start(s, iv.q) EXCEPT !.intervals[i].wake = s.now + iv.duration,
                                                   !.intervals[i].alive = ~iv.cancel],
                "tick", s.queries[iv.q].key, iv.ty, "owner", iv.q, Len(s.runs) + 1)

\* the timer task of Interval i wakes up: it ends if cancelled, else it calls
\* the closure of queue_refetch, which spawns Query::fetch, and sleeps again
Interval_wake(s, i) ==
    LET iv == s.intervals[i]
    IN  IF iv.cancel
        THEN Out(Query_drop([s EXCEPT !.intervals[i].alive = FALSE], {iv.q}), NoResult, 0)
        ELSE Suspend([Query_fetch_start(s, iv.q) EXCEPT !.intervals[i].wake = s.now + iv.duration],
                     "tick", s.queries[iv.q].key, iv.ty, "owner", iv.q, Len(s.runs) + 1)

\* ------------------------------------------------- QueryCache (cache.rs)
\* The keys and entries the stores are exercised with.
CacheNames == {"a", "b"}
CacheKeys == [key : CacheNames, ty : Types]
CacheEntries == 1..MaxQueries

\* derive(Ord) of QueryKey: by key, then by ty; str orders "a" before "b", and
\* the order of two TypeIds is one of the two the build can produce
KeyLess(k1, k2) ==
    \/ k1.key = "a" /\ k2.key = "b"
    \/ k1.key = k2.key /\ k1.ty = "T" /\ k2.ty = "U"

\* derive(Hash) of QueryKey, reduced to the slot a key maps to; equal keys map
\* to one slot, and here so do the keys of one name
NumSlots == 2
KeyHash(k) == IF k.key = "a" THEN 1 ELSE 2

\* Iterator::position(|(k, _)| k == key): the first index, 0 for None
position(v, key) ==
    IF \E i \in 1..Len(v) : v[i][1] = key
    THEN CHOOSE i \in 1..Len(v) : v[i][1] = key /\ \A j \in 1..(i - 1) : v[j][1] # key
    ELSE 0

\* Vec::remove(idx)
Vec_remove_at(v, idx) == SubSeq(v, 1, idx - 1) \o SubSeq(v, idx + 1, Len(v))

\* impl QueryCache for Vec<(QueryKey, Query)>
Vec_get(v, key) == IF position(v, key) = 0 THEN None ELSE Some(v[position(v, key)][2])

Vec_get_mut(v, key) == IF position(v, key) = 0 THEN None ELSE Some(v[position(v, key)][2])

\* set that pushes without looking for the key
Vec_set_push(v, key, entry) == Append(v, <<key, entry>>)

Vec_set(v, key, entry) ==
    IF position(v, key) # 0
    THEN [v EXCEPT ![position(v, key)] = <<key, entry>>]
    ELSE Append(v, <<key, entry>>)

\* remove: the store it leaves and what it returns
Vec_remove(v, key) ==
    IF position(v, key) # 0
    THEN [store |-> Vec_remove_at(v, position(v, key)), ret |-> Some(v[position(v, key)][2])]
    ELSE [store |-> v, ret |-> None]

Vec_has(v, key) == IsSome(Vec_get(v, key))

Vec_clear(v) == <<>>

\* impl QueryCache for HashMap<QueryKey, Query>: a table of slots, each the
\* keys that hash to it with their entries, searched by Eq
HashMap_new == [slot \in 1..NumSlots |-> <<>>]

HashMap_get(m, key) ==
    LET b == m[KeyHash(key)]
    IN  IF position(b, key) = 0 THEN None ELSE Some(b[position(b, key)][2])

HashMap_get_mut(m, key) == HashMap_get(m, key)

\* HashMap::insert: the value of an equal key is replaced
HashMap_set(m, key, entry) ==
    LET b == m[KeyHash(key)]
    IN  [m EXCEPT ![KeyHash(key)] =
            IF position(b, key) # 0
            THEN [b EXCEPT ![position(b, key)] = <<b[position(b, key)][1], entry>>]
            ELSE Append(b, <<key, entry>>)]

HashMap_remove(m, key) ==
    LET b == m[KeyHash(key)]
    IN  IF position(b, key) # 0
        THEN [store |-> [m EXCEPT ![KeyHash(key)] = Vec_remove_at(b, position(b, key))],
              ret |-> Some(b[position(b, key)][2])]
        ELSE [store |-> m, ret |-> None]

HashMap_has(m, key) == position(m[KeyHash(key)], key) # 0

HashMap_clear(m) == HashMap_new

\* impl QueryCache for BTreeMap<QueryKey, Query>: the pairs in the order of
\* their keys, searched by Ord
BTreeMap_search(m, key) ==
    IF \E i \in 1..Len(m) : ~KeyLess(m[i][1], key) /\ ~KeyLess(key, m[i][1])
    THEN CHOOSE i \in 1..Len(m) : ~KeyLess(m[i][1], key) /\ ~KeyLess(key, m[i][1])
    ELSE 0

BTreeMap_get(m, key) ==
    IF BTreeMap_search(m, key) = 0 THEN None ELSE Some(m[BTreeMap_search(m, key)][2])

BTreeMap_get_mut(m, key) == BTreeMap_get(m, key)

\* BTreeMap::insert: the value of an equal key is replaced, a new key goes
\* after the keys that are less
BTreeMap_set(m, key, entry) ==
    IF BTreeMap_search(m, key) # 0
    THEN [m EXCEPT ![BTreeMap_search(m, key)] = <<m[BTreeMap_search(m, key)][1], entry>>]
    ELSE LET below == Cardinality({i \in 1..Len(m) : KeyLess(m[i][1], key)})
         IN  SubSeq(m, 1, below) \o <<(<<key, entry>>)>> \o SubSeq(m, below + 1, Len(m))

BTreeMap_remove(m, key) ==
    IF BTreeMap_search(m, key) # 0
    THEN [store |-> Vec_remove_at(m, BTreeMap_search(m, key)),
          ret |-> Some(m[BTreeMap_search(m, key)][2])]
    ELSE [store |-> m, ret |-> None]

BTreeMap_has(m, key) == BTreeMap_search(m, key) # 0

BTreeMap_clear(m) == <<>>

\* The three stores, each with what the last operation returned on it, and by
\* their side the map from QueryKey to entry they are compared with.
Rets(hash, tree, vec, map) == [hash |-> hash, tree |-> tree, vec |-> vec, map |-> map]

EmptyStores ==
    [hash |-> HashMap_new, tree |-> <<>>, vec |-> <<>>,
     map |-> [k \in CacheKeys |-> None],
     op |-> "new", ret |-> Rets(None, None, None, None)]

\* ----------------------------------------------------------------- actions
WithinBounds(s) ==
    /\ Len(s.calls) <= MaxCalls
    /\ Len(s.runs) <= MaxRuns
    /\ Len(s.queries) <= MaxQueries
    /\ Len(s.intervals) <= MaxIntervals
    /\ \A q \in 1..Len(s.queries) : Len(s.queries[q].events) <= MaxEvents

Becomes(s) ==
    /\ WithinBounds(s)
    /\ now' = s.now
    /\ cache' = s.cache
    /\ queries' = s.queries
    /\ runs' = s.runs
    /\ intervals' = s.intervals
    /\ calls' = s.calls
    /\ UNCHANGED <<options, stores>>

Init ==
    /\ now = 0
    /\ options \in ClientOptions
    /\ cache = [k \in QueryKeys |-> None]
    /\ queries = <<>>
    /\ runs = <<>>
    /\ intervals = <<>>
    /\ calls = <<>>
    /\ stores = EmptyStores

Tick ==
    /\ now < MaxTime
    /\ Becomes([St EXCEPT !.now = @ + 1])

\* Every call passes a closure of its own; nothing compares closures, so the
\* closure of a call is named by the number the call suspends under.
Closure(s) == Len(s.calls) + 1

\* QueryClient::fetch_query: fetch_query_with_options without options
FetchQuery(key, T) == Becomes(QueryClient_fetch_query(St, key, T, Closure(St), None).st)

RefetchQuery(key, T) == Becomes(QueryClient_refetch_query(St, key, T).st)

SetQueryData(key, T, v) == Becomes(QueryClient_set_query_data(St, key, T, v).st)

RemoveQueryData(key) == Becomes(QueryClient_remove_query_data(St, key).st)

ClearQueries == Becomes(QueryClient_clear_queries(St).st)

\* fetch_with_retry: the attempt fails or succeeds and the executor goes to
\* sleep for the next delay of the policy
AttemptRetries(r, ok) ==
    /\ runs[r].pc = "running"
    /\ AttemptReturns(St, r, ok).runs[r].pc = "sleeping"
    /\ Becomes(AttemptReturns(St, r, ok))

\* fetch_with_retry: the delay has elapsed, the fetch function is invoked again
RunWake(r) ==
    /\ runs[r].pc = "sleeping"
    /\ now >= runs[r].wake
    /\ runs[r].invocations < MaxInvocations
    /\ Becomes([St EXCEPT !.runs[r].pc = "running", !.runs[r].invocations = @ + 1])

\* fetch_with_retry returns, in the poll of a call c that awaits it, and c
\* goes on
AttemptResolves(r, ok, c) ==
    /\ runs[r].pc = "running"
    /\ AttemptReturns(St, r, ok).runs[r].pc = "done"
    /\ calls[c].pending /\ calls[c].run = r
    /\ Becomes(Continue(AttemptReturns(St, r, ok), c).st)

\* another call that awaits the same shared future is polled after it resolved
Resume(c) ==
    /\ calls[c].pending
    /\ runs[calls[c].run].pc = "done"
    /\ Becomes(Continue(St, c).st)

IntervalFire(i) ==
    /\ intervals[i].alive
    /\ now >= intervals[i].wake
    /\ Becomes(Interval_wake(St, i).st)

Next ==
    \/ Tick
    \/ \E key \in QueryKeys, T \in Types : FetchQuery(key, T)
    \/ \E key \in QueryKeys, T \in Types : RefetchQuery(key, T)
    \/ \E key \in QueryKeys, T \in Types, v \in SetValues : SetQueryData(key, T, v)
    \/ \E key \in QueryKeys : RemoveQueryData(key)
    \/ ClearQueries
    \/ \E r \in 1..Len(runs), ok \in BOOLEAN : AttemptRetries(r, ok)
    \/ \E r \in 1..Len(runs) : RunWake(r)
    \/ \E r \in 1..Len(runs), ok \in BOOLEAN, c \in 1..Len(calls) : AttemptResolves(r, ok, c)
    \/ \E c \in 1..Len(calls) : Resume(c)
    \/ \E i \in 1..Len(intervals) : IntervalFire(i)

Spec == Init /\ [][Next]_vars

\* ------------------------------------------------- the client with observers
\* QueryObserver::observe: the task it spawns calls
\* fetch_query_with_options_and_observe with the observer's handler
ObserveQuery(key, T) ==
    Becomes(QueryClient_fetch_query_observe(St, key, T, Closure(St), None).st)

ObserverNext ==
    \/ Next
    \/ \E key \in QueryKeys, T \in Types : ObserveQuery(key, T)

\* the clients that keep entries
ObserverInit ==
    /\ Init
    /\ IsSome(options.cache_time)

ObserverSpec == ObserverInit /\ [][ObserverNext]_vars

\* ------------------------------------------- the stores, driven on their own
\* (test_cache_impl of cache.rs, over every sequence of operations)
CacheInit ==
    /\ now = 0
    /\ options = QueryOptions(None, None, None)
    /\ cache = [k \in QueryKeys |-> None]
    /\ queries = <<>>
    /\ runs = <<>>
    /\ intervals = <<>>
    /\ calls = <<>>
    /\ stores = EmptyStores

CacheSet(key, entry) ==
    /\ stores' = [stores EXCEPT !.hash = HashMap_set(@, key, entry),
                                !.tree = BTreeMap_set(@, key, entry),
                                !.vec = Vec_set(@, key, entry),
                                !.map = [@ EXCEPT ![key] = Some(entry)],
                                !.op = "set",
                                !.ret = Rets(None, None, None, None)]
    /\ UNCHANGED <<now, options, cache, queries, runs, intervals, calls>>

CacheGet(key) ==
    /\ stores' = [stores EXCEPT !.op = "get",
                                !.ret = Rets(HashMap_get(stores.hash, key),
                                             BTreeMap_get(stores.tree, key),
                                             Vec_get(stores.vec, key),
                                             stores.map[key])]
    /\ UNCHANGED <<now, options, cache, queries, runs, intervals, calls>>

CacheGetMut(key) ==
    /\ stores' = [stores EXCEPT !.op = "get_mut",
                                !.ret = Rets(HashMap_get_mut(stores.hash, key),
                                             BTreeMap_get_mut(stores.tree, key),
                                             Vec_get_mut(stores.vec, key),
                                             stores.map[key])]
    /\ UNCHANGED <<now, options, cache, queries, runs, intervals, calls>>

CacheHas(key) ==
    /\ stores' = [stores EXCEPT !.op = "has",
                                !.ret = Rets(<<HashMap_has(stores.hash, key)>>,
                                             <<BTreeMap_has(stores.tree, key)>>,
                                             <<Vec_has(stores.vec, key)>>,
                                             <<IsSome(stores.map[key])>>)]
    /\ UNCHANGED <<now, options, cache, queries, runs, intervals, calls>>

CacheRemove(key) ==
    /\ stores' = [stores EXCEPT !.hash = HashMap_remove(@, key).store,
                                !.tree = BTreeMap_remove(@, key).store,
                                !.vec = Vec_remove(@, key).store,
                                !.map = [@ EXCEPT ![key] = None],
                                !.op = "remove",
                                !.ret = Rets(HashMap_remove(stores.hash, key).ret,
                                             BTreeMap_remove(stores.tree, key).ret,
                                             Vec_remove(stores.vec, key).ret,
                                             stores.map[key])]
    /\ UNCHANGED <<now, options, cache, queries, runs, intervals, calls>>

CacheClear ==
    /\ stores' = [stores EXCEPT !.hash = HashMap_clear(@),
                                !.tree = BTreeMap_clear(@),
                                !.vec = Vec_clear(@),
                                !.map = [k \in CacheKeys |-> None],
                                !.op = "clear",
                                !.ret = Rets(None, None, None, None)]
    /\ UNCHANGED <<now, options, cache, queries, runs, intervals, calls>>

CacheNext ==
    \/ \E key \in CacheKeys, entry \in CacheEntries : CacheSet(key, entry)
    \/ \E key \in CacheKeys : CacheGet(key)
    \/ \E key \in CacheKeys : CacheGetMut(key)
    \/ \E key \in CacheKeys : CacheHas(key)
    \/ \E key \in CacheKeys : CacheRemove(key)
    \/ CacheClear

CacheSpec == CacheInit /\ [][CacheNext]_vars

\* ================================================================== claims
\* The calls of the client that return without suspending are evaluated in the
\* state the program is in: Op(St, ...).res is what the call returns there and
\* Op(St, ...).st the state it leaves.

\* C1 (as stated; the code violates it): on a caching client, fetch_query calls
\* of the same key and type that are pending together, none resolved yet, await
\* one execution of the fetch function, so they receive one result.
C1_Dedup ==
    \A c1, c2 \in 1..Len(calls) :
        (/\ IsSome(options.cache_time)
         /\ calls[c1].op = "fetch_query" /\ calls[c2].op = "fetch_query"
         /\ calls[c1].pending /\ calls[c2].pending
         /\ calls[c1].key = calls[c2].key
         /\ calls[c1].ty = calls[c1].key.ty /\ calls[c2].ty = calls[c2].key.ty)
        => calls[c1].run = calls[c2].run

\* C2 (as stated; the code violates it): on a caching client at most one
\* execution of the fetch function is in flight per key, whichever of
\* fetch_query, refetch_query and the scheduler's ticks asked for it.
C2_SingleFlight ==
    \A c1, c2 \in 1..Len(calls) :
        (/\ IsSome(options.cache_time)
         /\ calls[c1].mode # "joiner" /\ calls[c2].mode # "joiner"
         /\ runs[calls[c1].run].pc # "done" /\ runs[calls[c2].run].pc # "done"
         /\ calls[c1].key = calls[c2].key)
        => c1 = c2

\* C3: on a client with cache_time d, while now < u + d for the time u the
\* entry of a key was last made Ready, fetch_query of the key returns the
\* entry's value (TypeMismatch when asked for another type), starts no
\* execution of a fetch function and changes nothing.
C3_TTLFreshness ==
    \A key \in QueryKeys :
        (/\ IsSome(options.cache_time)
         /\ IsSome(cache[key])
         /\ IsSome(queries[Unwrap(cache[key])].updated_at)
         /\ now < Unwrap(queries[Unwrap(cache[key])].updated_at) + Unwrap(options.cache_time))
        => \A T \in Types :
             LET e == queries[Unwrap(cache[key])]
                 out == QueryClient_fetch_query(St, key, T, Closure(St), None)
             IN  /\ out.st = St
                 /\ out.call = 0
                 /\ IsSome(e.last_value)
                 /\ out.res = IF T = e.type_id THEN Ok(Unwrap(e.last_value))
                              ELSE Err(QueryError("TypeMismatch"))

\* C3's case: a fetch_query of a key resolved with a value at u, the clock has
\* moved on and is still before u + d, and the entry holds that value.
C3_Witness ==
    \E c \in 1..Len(calls) :
        /\ calls[c].op = "fetch_query" /\ ~calls[c].pending /\ calls[c].res.ok
        /\ IsSome(options.cache_time)
        /\ IsSome(cache[calls[c].key])
        /\ LET e == queries[Unwrap(cache[calls[c].key])]
           IN  /\ e.last_value = Some(calls[c].res.val)
               /\ IsSome(e.updated_at)
               /\ Unwrap(e.updated_at) > 0
               /\ now > Unwrap(e.updated_at)
               /\ now < Unwrap(e.updated_at) + Unwrap(options.cache_time)

PolicyDelays(retrier) == IF retrier = None THEN 0 ELSE Unwrap(retrier).n

\* C5: an execution of fetch_with_retry that returned and saw every attempt
\* fail ran under no policy or a finite one, of k delays; it invoked the fetch
\* function k + 1 times (once without a policy) and returned the error of the
\* last invocation, which is what the calls awaiting it return.
C5_RetryExhaustion ==
    \A r \in 1..Len(runs) :
        (runs[r].pc = "done" /\ runs[r].first_ok = None)
        => /\ runs[r].retrier = None \/ ~Unwrap(runs[r].retrier).inf
           /\ runs[r].invocations = PolicyDelays(runs[r].retrier) + 1
           /\ runs[r].delays = PolicyDelays(runs[r].retrier)
           /\ runs[r].ret = Err(FetchError(<<r, PolicyDelays(runs[r].retrier) + 1>>))
           /\ \A c \in 1..Len(calls) :
                (calls[c].run = r /\ ~calls[c].pending) => calls[c].res = runs[r].ret

\* C5's case: under a policy of two delays every attempt failed and the
\* execution returned to its caller.
C5_Witness ==
    \E c \in 1..Len(calls) :
        /\ ~calls[c].pending
        /\ runs[calls[c].run].pc = "done"
        /\ runs[calls[c].run].first_ok = None
        /\ runs[calls[c].run].retrier = Some(Policy(FALSE, 2, 0))
        /\ runs[calls[c].run].invocations = 3

\* C6 (as stated; the code violates it): once an attempt of an execution has
\* succeeded the execution has returned, with the value of that attempt.
C6_FirstSuccess ==
    \A r \in 1..Len(runs) :
        IsSome(runs[r].first_ok)
        => runs[r].pc = "done" /\ runs[r].ret = Unwrap(runs[r].first_ok)

\* C7 (as stated; the code violates it): when the first success of an
\* execution is that of attempt m + 1, the execution makes m + 1 invocations
\* and takes m delays from its policy.
C7_RetryThenSucceed ==
    \A r \in 1..Len(runs) :
        IsSome(runs[r].first_ok)
        => /\ runs[r].invocations = Unwrap(runs[r].first_ok).val.v[2]
           /\ runs[r].delays = Unwrap(runs[r].first_ok).val.v[2] - 1

\* C8 (as stated; the code violates it): get_query_data::<T>(key) returns
\* TypeMismatch when T is not the key's tag, else KeyNotFound when the key has
\* no entry, else StaleValue when the entry is stale, else NotReady when the
\* entry has no value, else the value (of an entry of the key's type).
C8_GetQueryData ==
    \A key \in QueryKeys, T \in Types :
        LET got == QueryClient_get_query_data(St, key, T)
        IN  IF key.ty # T THEN got = Err(QueryError("TypeMismatch"))
            ELSE IF cache[key] = None THEN got = Err(QueryError("KeyNotFound"))
            ELSE IF Query_is_stale(St, Unwrap(cache[key])) THEN got = Err(QueryError("StaleValue"))
            ELSE IF queries[Unwrap(cache[key])].last_value = None
                 THEN got = Err(QueryError("NotReady"))
            ELSE queries[Unwrap(cache[key])].type_id = T
                 => got = Ok(Unwrap(queries[Unwrap(cache[key])].last_value))

\* C9: on an entry of type T under a key tagged T, set_query_data(key, v) is
\* accepted, and from then until the TTL has passed get_query_data::<T>(key)
\* returns v and get_query_data::<U>(key), U # T, returns TypeMismatch.
C9_RoundTrip ==
    \A key \in QueryKeys, v \in SetValues :
        (IsSome(cache[key]) /\ queries[Unwrap(cache[key])].type_id = key.ty)
        => LET out == QueryClient_set_query_data(St, key, key.ty, v)
               ttl == queries[Unwrap(cache[key])].cache_time
           IN  /\ out.res = Ok(NoValue)
               /\ \A t \in now..MaxTime :
                    (ttl = None \/ t - now < Unwrap(ttl))
                    => LET later == [out.st EXCEPT !.now = t]
                       IN  /\ QueryClient_get_query_data(later, key, key.ty)
                                = Ok(AnyValue(key.ty, v))
                           /\ \A U \in Types \ {key.ty} :
                                QueryClient_get_query_data(later, key, U)
                                    = Err(QueryError("TypeMismatch"))

\* C9's case: set_query_data wrote the value of an entry that a fetch had
\* filled before, and get_query_data returns the written value.
C9_Witness ==
    \E key \in QueryKeys, v \in SetValues :
        /\ IsSome(cache[key])
        /\ queries[Unwrap(cache[key])].type_id = key.ty
        /\ queries[Unwrap(cache[key])].future_or_value = ValueFuture(AnyValue(key.ty, v))
        /\ \E c \in 1..Len(calls) : calls[c].key = key /\ ~calls[c].pending /\ calls[c].res.ok
        /\ QueryClient_get_query_data(St, key, key.ty) = Ok(AnyValue(key.ty, v))

\* C10 (as stated; the code violates it): on a key with no entry
\* set_query_data and refetch_query return KeyNotFound and change nothing; on
\* an entry of another type set_query_data returns TypeMismatch and changes
\* nothing.
C10_RejectedAsStated ==
    \A key \in QueryKeys, T \in Types, v \in SetValues :
        LET set == QueryClient_set_query_data(St, key, T, v)
            refetch == QueryClient_refetch_query(St, key, T)
        IN  /\ cache[key] = None
               => /\ set.res = Err(QueryError("KeyNotFound")) /\ set.st = St
                  /\ refetch.res = Err(QueryError("KeyNotFound")) /\ refetch.st = St
            /\ (IsSome(cache[key]) /\ queries[Unwrap(cache[key])].type_id # T)
               => set.res = Err(QueryError("TypeMismatch")) /\ set.st = St

\* C10 (amended): on a key with no entry refetch_query returns KeyNotFound and
\* set_query_data returns KeyNotFound when the value's type is the key's tag,
\* TypeMismatch when it is not; on an entry set_query_data returns TypeMismatch
\* when the value's type is not the key's tag or not the entry's type. Each of
\* these calls leaves the state (the store, every entry, the executions in
\* flight) as it was.
C10_Rejected ==
    \A key \in QueryKeys, T \in Types, v \in SetValues :
        LET set == QueryClient_set_query_data(St, key, T, v)
            refetch == QueryClient_refetch_query(St, key, T)
        IN  /\ cache[key] = None
               => /\ set.res = IF key.ty = T THEN Err(QueryError("KeyNotFound"))
                               ELSE Err(QueryError("TypeMismatch"))
                  /\ set.st = St
                  /\ refetch.res = Err(QueryError("KeyNotFound")) /\ refetch.st = St
            /\ (IsSome(cache[key]) /\ (key.ty # T \/ queries[Unwrap(cache[key])].type_id # T))
               => set.res = Err(QueryError("TypeMismatch")) /\ set.st = St

\* C10's case: one key has no entry and the other a Ready entry with a value
\* and a timestamp, which a rejected write of another type leaves alone.
C10_Witness ==
    \E k1, k2 \in QueryKeys, v \in SetValues :
        /\ cache[k1] = None
        /\ IsSome(cache[k2])
        /\ queries[Unwrap(cache[k2])].state = Ready
        /\ IsSome(queries[Unwrap(cache[k2])].last_value)
        /\ IsSome(queries[Unwrap(cache[k2])].updated_at)
        /\ queries[Unwrap(cache[k2])].type_id = k2.ty
        /\ QueryClient_set_query_data(St, k1, k1.ty, v).res = Err(QueryError("KeyNotFound"))
        /\ \E U \in Types \ {k2.ty} :
             QueryClient_set_query_data(St, k2, U, v).res = Err(QueryError("TypeMismatch"))

\* C11: refetch_query::<T>(key) on an entry of type T, fresh or not, starts a
\* new execution, of the function the entry captured when it was created, and
\* suspends on it; and when the execution a refetch_query awaits returns a
\* value, the entry holds that value, stamped now, is Ready and is not stale.
C11_RefetchBypass ==
    /\ \A key \in QueryKeys :
         IsSome(cache[key])
         => LET e == queries[Unwrap(cache[key])]
                out == QueryClient_refetch_query(St, key, e.type_id)
            IN  /\ out.call = Len(calls) + 1
                /\ Len(out.st.runs) = Len(runs) + 1
                /\ out.st.runs[Len(runs) + 1].fn = e.fetcher
                /\ out.st.runs[Len(runs) + 1].pc = "running"
                /\ out.st.runs[Len(runs) + 1].invocations = 1
                /\ out.st.calls[out.call].run = Len(runs) + 1
                /\ out.st.queries[Unwrap(cache[key])].future_or_value = RunFuture(Len(runs) + 1)
    /\ \A c \in 1..Len(calls) :
         (/\ calls[c].op = "refetch_query" /\ calls[c].pending
          /\ runs[calls[c].run].pc = "running"
          /\ AttemptReturns(St, calls[c].run, TRUE).runs[calls[c].run].pc = "done")
         => LET fin == Continue(AttemptReturns(St, calls[c].run, TRUE), c)
                e == fin.st.queries[calls[c].q]
            IN  /\ fin.res.ok
                /\ e.last_value = Some(fin.res.val)
                /\ e.updated_at = Some(now)
                /\ e.state = Ready
                /\ (IsSome(e.cache_time) /\ Unwrap(e.cache_time) > 0)
                   => ~Query_is_stale(fin.st, calls[c].q)

\* C11's case: a refetch_query resolved with a value that the entry now holds,
\* fresh, the execution having run the function of the call that created the
\* entry; and refetch_query called now, on the fresh value, starts an execution.
C11_Witness ==
    \E c \in 1..Len(calls) :
        /\ calls[c].op = "refetch_query" /\ ~calls[c].pending /\ calls[c].res.ok
        /\ cache[calls[c].key] = Some(calls[c].q)
        /\ queries[calls[c].q].last_value = Some(calls[c].res.val)
        /\ runs[calls[c].run].fn = queries[calls[c].q].fetcher
        /\ queries[calls[c].q].fetcher # c
        /\ ~Query_is_stale(St, calls[c].q)
        /\ QueryClient_refetch_query(St, calls[c].key, calls[c].ty).call # 0

\* C12 (as stated; the code violates it): a timer task that is running and
\* not cancelled belongs to a query that is in the cache or that a suspended
\* call still holds.
C12_EvictionCancels ==
    \A i \in 1..Len(intervals) :
        (intervals[i].alive /\ ~intervals[i].cancel)
        => \/ \E k \in QueryKeys : cache[k] = Some(intervals[i].q)
           \/ \E c \in 1..Len(calls) : calls[c].pending /\ calls[c].q = intervals[i].q

\* C13: an entry of the store is reported by contains_query and get_query,
\* stale or not, has_query_data is false of it while it is stale, and no step
\* other than remove_query_data of its key and clear_queries takes it out of
\* the store or replaces it: the passing of time does not.
C13_NoTimeEviction ==
    [][\A k \in QueryKeys :
         IsSome(cache[k])
         => /\ QueryClient_contains_query(St, k)
            /\ QueryClient_get_query(St, k) = cache[k]
            /\ Query_is_stale(St, Unwrap(cache[k])) => ~QueryClient_has_query_data(St, k)
            /\ cache'[k] = cache[k] \/ RemoveQueryData(k) \/ ClearQueries]_vars

\* C13's case: an entry that fetch_query created and filled is past its TTL
\* and still in the store.
C13_Witness ==
    \E k \in QueryKeys :
        /\ IsSome(cache[k])
        /\ queries[Unwrap(cache[k])].state = Ready
        /\ Query_is_stale(St, Unwrap(cache[k]))
        /\ now >= Unwrap(queries[Unwrap(cache[k])].updated_at) + Unwrap(queries[Unwrap(cache[k])].cache_time)
        /\ \E c \in 1..Len(calls) : calls[c].op = "fetch_query" /\ calls[c].key = k /\ ~calls[c].pending
        /\ QueryClient_contains_query(St, k)
        /\ ~QueryClient_has_query_data(St, k)

\* C14: on a client built without a cache_time, fetch_query constructs no
\* Query and writes nothing to the store, contains_query is false of every
\* key before, during and after every call, and a call returns what the
\* execution of fetch_with_retry it awaited returned.
C14_PassThrough ==
    options.cache_time = None
    => /\ queries = <<>>
       /\ \A k \in QueryKeys : ~QueryClient_contains_query(St, k)
       /\ \A c \in 1..Len(calls) :
            /\ calls[c].mode = "direct"
            /\ ~calls[c].pending => calls[c].res = runs[calls[c].run].ret
       /\ \A k \in QueryKeys, T \in Types :
            LET out == QueryClient_fetch_query(St, k, T, Closure(St), None)
            IN  /\ out.st.cache = cache
                /\ out.st.queries = queries
                /\ out.call = Len(calls) + 1

\* C14's case: on a client without a cache_time one fetch_query has returned
\* the value of its fetch and another is suspended on its own.
C14_Witness ==
    /\ options.cache_time = None
    /\ \E c1, c2 \in 1..Len(calls) :
        /\ calls[c1].op = "fetch_query" /\ ~calls[c1].pending /\ calls[c1].res.ok
        /\ calls[c2].op = "fetch_query" /\ calls[c2].pending
        /\ calls[c1].key = calls[c2].key
        /\ ~QueryClient_contains_query(St, calls[c1].key)

\* C15 (as stated; the code violates it): on a client built without a
\* cache_time, fetch_query calls of the same key and type that are pending
\* together await one execution of the fetch function.
C15_PassThroughDedup ==
    \A c1, c2 \in 1..Len(calls) :
        (/\ options.cache_time = None
         /\ calls[c1].op = "fetch_query" /\ calls[c2].op = "fetch_query"
         /\ calls[c1].pending /\ calls[c2].pending
         /\ calls[c1].key = calls[c2].key
         /\ calls[c1].ty = calls[c2].ty)
        => calls[c1].run = calls[c2].run

\* C16: on a client with a cache_time and refetch_time r, an entry of the
\* store that has been made Ready owns a running, uncancelled timer task of
\* period r that wakes no later than r from now; when that task wakes it
\* starts, with no caller, an execution of the entry's fetch function and
\* sleeps for r again; and when the execution a tick awaits returns a value
\* the entry holds it, stamped now, is Ready and not stale, and owns a new
\* timer that wakes at now + r.
C16_BackgroundRefetch ==
    /\ \A k \in QueryKeys :
         (/\ IsSome(options.cache_time) /\ IsSome(options.refetch_time)
          /\ IsSome(cache[k])
          /\ IsSome(queries[Unwrap(cache[k])].updated_at))
         => LET q == Unwrap(cache[k])
                e == queries[q]
                r == Unwrap(options.refetch_time)
            IN  /\ e.refetch_time = Some(r)
                /\ IsSome(e.interval)
                /\ LET i == Unwrap(e.interval)
                       out == Interval_wake(St, i)
                   IN  /\ intervals[i].alive /\ ~intervals[i].cancel
                       /\ intervals[i].q = q /\ intervals[i].duration = r
                       /\ intervals[i].wake <= now + r
                       /\ intervals[i].wake >= Unwrap(e.updated_at) + r
                       /\ out.call = Len(calls) + 1
                       /\ out.st.calls[out.call].op = "tick"
                       /\ Len(out.st.runs) = Len(runs) + 1
                       /\ out.st.runs[Len(runs) + 1].fn = e.fetcher
                       /\ out.st.runs[Len(runs) + 1].pc = "running"
                       /\ out.st.intervals[i].wake = now + r
                       /\ out.st.intervals[i].alive /\ ~out.st.intervals[i].cancel
    /\ \A c \in 1..Len(calls) :
         (/\ IsSome(options.cache_time) /\ IsSome(options.refetch_time)
          /\ calls[c].op = "tick" /\ calls[c].pending
          /\ runs[calls[c].run].pc = "running"
          /\ AttemptReturns(St, calls[c].run, TRUE).runs[calls[c].run].pc = "done")
         => LET fin == Continue(AttemptReturns(St, calls[c].run, TRUE), c)
                e == fin.st.queries[calls[c].q]
            IN  /\ e.last_value = Some(fin.res.val)
                /\ e.updated_at = Some(now)
                /\ e.state = Ready
                /\ Unwrap(options.cache_time) > 0 => ~Query_is_stale(fin.st, calls[c].q)
                /\ IsSome(e.interval)
                /\ fin.st.intervals[Unwrap(e.interval)].wake = now + Unwrap(options.refetch_time)
                /\ ~fin.st.intervals[Unwrap(e.interval)].cancel

\* C16's case: the value of a first fetch, stamped at 0, went stale while the
\* fetch of the tick at 1 was in flight; that fetch returned a value at 2 and
\* the entry, still in the store, is fresh again and has a new timer.
C16_Witness ==
    \E c \in 1..Len(calls) :
        /\ IsSome(options.cache_time) /\ IsSome(options.refetch_time)
        /\ calls[c].op = "tick" /\ ~calls[c].pending /\ calls[c].res.ok
        /\ cache[calls[c].key] = Some(calls[c].q)
        /\ queries[calls[c].q].last_value = Some(calls[c].res.val)
        /\ queries[calls[c].q].updated_at = Some(now)
        /\ now = Unwrap(options.cache_time)
        /\ intervals[1].q = calls[c].q /\ intervals[1].wake = now
        /\ ~Query_is_stale(St, calls[c].q)
        /\ queries[calls[c].q].interval = Some(2)

\* C17 (as stated; the code violates it): on a client built with a
\* refetch_time and no cache_time, once a fetch_query of a key has returned a
\* value a timer task is running that will fetch the key again.
C17_RefetchWithoutTTL ==
    \A c \in 1..Len(calls) :
        (/\ options.cache_time = None /\ IsSome(options.refetch_time)
         /\ calls[c].op = "fetch_query" /\ ~calls[c].pending /\ calls[c].res.ok)
        => \E i \in 1..Len(intervals) :
             /\ intervals[i].alive /\ ~intervals[i].cancel
             /\ queries[intervals[i].q].key = calls[c].key

\* C18 (as stated; the code violates it): client.is_fetching(key) is true
\* exactly when the key has an entry and an execution of a fetch for that
\* entry is in flight.
C18_IsFetching ==
    \A k \in QueryKeys :
        QueryClient_is_fetching(St, k)
        <=> /\ IsSome(cache[k])
            /\ \E c \in 1..Len(calls) :
                 /\ calls[c].mode = "owner" /\ calls[c].q = Unwrap(cache[k])
                 /\ runs[calls[c].run].pc # "done"

C20_NoPoisonAsStated ==
    \A k \in QueryKeys :
        (/\ IsSome(cache[k])
         /\ queries[Unwrap(cache[k])].state.tag = "Failed"
         /\ ~Query_is_fetching(St, Unwrap(cache[k])))
        => LET out == QueryClient_fetch_query(St, k, queries[Unwrap(cache[k])].type_id,
                                              Closure(St), None)
           IN  out.call = Len(calls) + 1 /\ Len(out.st.runs) = Len(runs) + 1

\* C20 (amended): fetch_query on an entry that is Failed never returns the
\* stored error: it returns the entry's value when the entry holds one that
\* is not stale, else joins the execution in flight when there is one, else
\* starts a new execution of the entry's fetch function; and when the
\* execution a fetch_query started returns a value, the entry is Ready and
\* holds that value.
C20_NoPoison ==
    /\ \A k \in QueryKeys :
         (IsSome(cache[k]) /\ queries[Unwrap(cache[k])].state.tag = "Failed")
         => LET q == Unwrap(cache[k])
                e == queries[q]
                out == QueryClient_fetch_query(St, k, e.type_id, Closure(St), None)
                fresh == IsSome(e.last_value) /\ ~Query_is_stale(St, q)
                inflight == e.future_or_value.kind = "run"
                            /\ runs[e.future_or_value.id].pc # "done"
            IN  IF fresh
                THEN out.res = Ok(Unwrap(e.last_value)) /\ out.st = St
                ELSE /\ out.res = NoResult
                     /\ out.call = Len(calls) + 1
                     /\ IF inflight
                        THEN /\ out.st.runs = runs
                             /\ out.st.calls[out.call].mode = "joiner"
                             /\ out.st.calls[out.call].run = e.future_or_value.id
                        ELSE /\ Len(out.st.runs) = Len(runs) + 1
                             /\ out.st.runs[Len(runs) + 1].pc = "running"
                             /\ out.st.runs[Len(runs) + 1].fn = e.fetcher
                             /\ out.st.calls[out.call].mode = "owner"
                             /\ out.st.calls[out.call].run = Len(runs) + 1
    /\ \A c \in 1..Len(calls) :
         (/\ calls[c].op = "fetch_query" /\ calls[c].mode = "owner" /\ calls[c].pending
          /\ runs[calls[c].run].pc = "running"
          /\ AttemptReturns(St, calls[c].run, TRUE).runs[calls[c].run].pc = "done")
         => LET fin == Continue(AttemptReturns(St, calls[c].run, TRUE), c)
            IN  /\ fin.res.ok
                /\ fin.res.val.v[1] = calls[c].run
                /\ fin.st.queries[calls[c].q].state = Ready
                /\ fin.st.queries[calls[c].q].last_value = Some(fin.res.val)

\* C20's case: the first fetch of a key failed, leaving no value; a second
\* fetch_query of the key, made after that, ran a new execution, which
\* returned a value, and the entry is Ready with it.
C20_Witness ==
    /\ now = 0
    /\ Len(calls) = 2
    /\ calls[1].op = "fetch_query" /\ ~calls[1].pending /\ ~calls[1].res.ok
    /\ calls[2].op = "fetch_query" /\ ~calls[2].pending /\ calls[2].res.ok
    /\ calls[2].mode = "owner" /\ calls[2].q = calls[1].q /\ calls[2].run = 2
    /\ cache[calls[2].key] = Some(calls[2].q)
    /\ queries[calls[2].q].state = Ready
    /\ queries[calls[2].q].last_value = Some(calls[2].res.val)
    /\ calls[2].res.val.v[1] = 2

\* C21 (as stated; the code violates it): no call of the client panics on a
\* type error and no value is returned under a type other than its own:
\* get_query_data::<T> returns a value of type T or one of the errors
\* TypeMismatch, KeyNotFound, StaleValue; fetch_query::<T> and every finished
\* call return a value of the type they were asked for or an error.
C21_NoPanic ==
    /\ \A key \in QueryKeys, T \in Types :
         LET got == QueryClient_get_query_data(St, key, T)
             out == QueryClient_fetch_query(St, key, T, Closure(St), None)
         IN  /\ got.err.kind # "panic"
             /\ got.ok => got.val.ty = T
             /\ out.res.ok => out.res.val.ty = T
    /\ \A c \in 1..Len(calls) :
         (~calls[c].pending /\ calls[c].res.ok) => calls[c].res.val.ty = calls[c].ty

FetchStarts(q) ==
    {QueryClient_refetch_query(St, k, queries[q].type_id).st.queries[q] :
        k \in {x \in QueryKeys : cache[x] = Some(q)}}
    \cup {QueryClient_fetch_query(St, k, queries[q].type_id, Closure(St), None).st.queries[q] :
            k \in {x \in QueryKeys :
                     /\ cache[x] = Some(q)
                     /\ Len(QueryClient_fetch_query(St, x, queries[q].type_id,
                                                    Closure(St), None).st.runs) > Len(runs)}}
    \cup {Interval_wake(St, i).st.queries[q] :
            i \in {j \in 1..Len(intervals) :
                     intervals[j].alive /\ ~intervals[j].cancel /\ intervals[j].q = q}}

C23_ReadyHasValue ==
    \A q \in 1..Len(queries) :
        queries[q].state = Ready
        => IsSome(queries[q].last_value) /\ IsSome(queries[q].updated_at)

\* C23's case: an entry made Ready by set_value while a fetch started before
\* the write is still in flight.
C23_Witness ==
    \E c \in 1..Len(calls) :
        /\ calls[c].pending /\ calls[c].mode = "owner"
        /\ runs[calls[c].run].pc # "done"
        /\ queries[calls[c].q].state = Ready
        /\ queries[calls[c].q].last_value = Some(AnyValue(queries[calls[c].q].type_id, <<0, 1>>))
        /\ IsSome(queries[calls[c].q].updated_at)

\* C24 (as stated; the code violates it): in every reachable state, an entry
\* whose state is Loading has a fetch in flight: its shared future is
\* unresolved.
C24_LoadingInFlight ==
    \A q \in 1..Len(queries) :
        queries[q].state = Loading => Query_is_fetching(St, q)

\* C25 (as stated; the code violates it): is_stale() is false whenever the
\* entry's state is not Ready.
C25_StaleOnlyReadyAsStated ==
    \A q \in 1..Len(queries) :
        queries[q].state # Ready => ~Query_is_stale(St, q)

\* C25 (amended): is_stale() is false whenever the entry's state is Idle or
\* Loading, which have no time of last update; in state Ready and in state
\* Failed it is true exactly when the entry has been Ready before, has a
\* cache_time, and now - updated_at >= cache_time.
C25_StaleOnlyReady ==
    \A q \in 1..Len(queries) :
        /\ queries[q].state.tag \in {"Idle", "Loading"}
           => ~Query_is_stale(St, q) /\ queries[q].updated_at = None
        /\ queries[q].state.tag \in {"Ready", "Failed"}
           => (Query_is_stale(St, q)
               <=> /\ IsSome(queries[q].updated_at)
                   /\ IsSome(queries[q].cache_time)
                   /\ now - Unwrap(queries[q].updated_at) >= Unwrap(queries[q].cache_time))

\* C25's case: an entry that was Ready a full cache_time ago and is Failed now,
\* after a fetch that failed; is_stale() is true of it.
C25_Witness ==
    \E c \in 1..Len(calls) :
        /\ ~calls[c].pending /\ calls[c].mode = "owner" /\ ~calls[c].res.ok
        /\ queries[calls[c].q].state = Failed(calls[c].res.err)
        /\ IsSome(queries[calls[c].q].updated_at)
        /\ now - Unwrap(queries[calls[c].q].updated_at) >= Unwrap(queries[calls[c].q].cache_time)
        /\ Query_is_stale(St, calls[c].q)

\* C26: set_query_data of a value of the key's type on an existing entry of
\* that type succeeds whatever the entry's state, and leaves the entry Ready
\* with the written value, its shared future resolved to it and updated_at =
\* now; at every later time t the entry is stale exactly when
\* t - now >= cache_time, and get_query_data returns the written value while
\* it is not.
C26_SetValue ==
    \A key \in QueryKeys, v \in SetValues :
        (IsSome(cache[key]) /\ queries[Unwrap(cache[key])].type_id = key.ty)
        => LET q == Unwrap(cache[key])
               out == QueryClient_set_query_data(St, key, key.ty, v)
               e == out.st.queries[q]
               written == AnyValue(key.ty, v)
           IN  /\ out.res = Ok(NoValue)
               /\ e.state = Ready
               /\ e.last_value = Some(written)
               /\ e.updated_at = Some(now)
               /\ e.future_or_value = ValueFuture(written)
               /\ \A t \in now..(now + MaxTime + 1) :
                    LET later == [out.st EXCEPT !.now = t]
                    IN  /\ Query_is_stale(later, q) <=> (t - now >= Unwrap(e.cache_time))
                        /\ QueryClient_get_query_data(later, key, key.ty)
                             = IF t - now >= Unwrap(e.cache_time)
                               THEN Err(QueryError("StaleValue"))
                               ELSE Ok(written)

\* C26's case: a fetch of an entry failed, set_query_data then wrote a value
\* at time u, and a full cache_time later the entry is Ready with the written
\* value and stale.
C26_Witness ==
    \E c \in 1..Len(calls) :
        /\ ~calls[c].pending /\ calls[c].mode = "owner" /\ ~calls[c].res.ok
        /\ cache[calls[c].key] = Some(calls[c].q)
        /\ queries[calls[c].q].state = Ready
        /\ queries[calls[c].q].last_value = Some(AnyValue(calls[c].key.ty, <<0, 1>>))
        /\ IsSome(queries[calls[c].q].updated_at)
        /\ now = Unwrap(queries[calls[c].q].updated_at) + Unwrap(queries[calls[c].q].cache_time)
        /\ Query_is_stale(St, calls[c].q)

\* C27: once cancellation of an Interval has been requested its callback is
\* never invoked again: in every step the cancel flag of a cancelled Interval
\* stays set (a further request changes nothing), its timer task is not put
\* back to sleep and does not come back to life, and every scheduler tick
\* that starts in the step is the callback of an Interval that was not
\* cancelled.
C27_CancelStops ==
    [][/\ \A i \in 1..Len(intervals) :
            intervals[i].cancel
            => /\ intervals'[i].cancel
               /\ intervals'[i].wake = intervals[i].wake
               /\ intervals'[i].alive => intervals[i].alive
               /\ now >= intervals[i].wake => Interval_wake(St, i).call = 0
       /\ (Len(calls') > Len(calls) /\ calls'[Len(calls')].op = "tick")
          => \E j \in 1..Len(intervals) :
                /\ ~intervals[j].cancel /\ intervals[j].alive
                /\ intervals[j].q = calls'[Len(calls')].q
                /\ now >= intervals[j].wake
                /\ intervals'[j].wake = now + intervals[j].duration]_vars

\* C27's case: the first Interval called its callback at time 1, was
\* cancelled while it slept until time 2, woke up at time 2 and ended without
\* a call; the Interval that replaced it has not fired.
C27_Witness ==
    /\ Len(intervals) = 2
    /\ intervals[1].cancel /\ ~intervals[1].alive
    /\ intervals[1].wake = 2 /\ now = 2
    /\ intervals[2].wake <= 2
    /\ \E c \in 1..Len(calls) : calls[c].op = "tick" /\ calls[c].q = intervals[1].q

\* C28: in every reachable state each entry has at most one Interval that is
\* not cancelled, and it is the one the entry holds in its interval field.
C28_OneScheduler ==
    \A q \in 1..Len(queries) :
        LET live == {i \in 1..Len(intervals) : intervals[i].q = q /\ ~intervals[i].cancel}
        IN  /\ Cardinality(live) <= 1
            /\ \A i \in live : queries[q].interval = Some(i)

\* C28's case: an entry was armed twice; its first Interval is cancelled and
\* its second is the one it holds.
C28_Witness ==
    /\ Len(intervals) = 2
    /\ intervals[1].q = intervals[2].q
    /\ intervals[1].cancel /\ ~intervals[2].cancel
    /\ queries[intervals[2].q].interval = Some(2)

\* C29: when the fetch of a scheduler tick fails, the entry becomes Failed
\* with the error and no Interval is touched; and while the entry is Failed
\* by a tick, the Interval it holds is running and not cancelled, its next
\* wake-up starts a new fetch of the entry's function, and when that fetch
\* returns a value the entry is Ready with the new value, updated at that
\* time.
C29_FailedTickKeepsSchedule ==
    /\ \A c \in 1..Len(calls) :
         (/\ calls[c].op = "tick" /\ calls[c].pending
          /\ runs[calls[c].run].pc = "running"
          /\ AttemptReturns(St, calls[c].run, FALSE).runs[calls[c].run].pc = "done")
         => LET s0 == AttemptReturns(St, calls[c].run, FALSE)
                fin == Continue(s0, c)
            IN  /\ ~fin.res.ok
                /\ fin.st.queries[calls[c].q].state = Failed(fin.res.err)
                /\ fin.st.queries[calls[c].q].interval = queries[calls[c].q].interval
                /\ fin.st.intervals = intervals
    /\ \A c \in 1..Len(calls) :
         (/\ calls[c].op = "tick" /\ ~calls[c].pending /\ ~calls[c].res.ok
          /\ queries[calls[c].q].state = Failed(calls[c].res.err))
         => LET q == calls[c].q
            IN  /\ IsSome(queries[q].interval)
                /\ LET i == Unwrap(queries[q].interval)
                       iv == intervals[i]
                       t == IF iv.wake > now THEN iv.wake ELSE now
                       woken == Interval_wake([St EXCEPT !.now = t], i)
                       r == Len(runs) + 1
                       fin == Continue(AttemptReturns(woken.st, r, TRUE), woken.call)
                   IN  /\ iv.alive /\ ~iv.cancel /\ iv.q = q
                       /\ iv.duration = Unwrap(queries[q].refetch_time)
                       /\ woken.call = Len(calls) + 1
                       /\ woken.st.runs[r].fn = queries[q].fetcher
                       /\ woken.st.intervals[i].wake = t + iv.duration
                       /\ fin.res = Ok(AnyValue(queries[q].type_id, <<r, 1>>))
                       /\ fin.st.queries[q].state = Ready
                       /\ fin.st.queries[q].last_value = Some(fin.res.val)
                       /\ fin.st.queries[q].updated_at = Some(t)

\* C29's case: a scheduler tick's fetch has failed, the entry is Failed with
\* its error, and the entry's Interval is asleep until its next tick.
C29_Witness ==
    \E c \in 1..Len(calls) :
        /\ calls[c].op = "tick" /\ ~calls[c].pending /\ ~calls[c].res.ok
        /\ queries[calls[c].q].state = Failed(calls[c].res.err)
        /\ IsSome(queries[calls[c].q].interval)
        /\ intervals[Unwrap(queries[calls[c].q].interval)].alive
        /\ ~intervals[Unwrap(queries[calls[c].q].interval)].cancel
        /\ intervals[Unwrap(queries[calls[c].q].interval)].wake > now

\* the pairs a store holds under the key k
Held(pairs, k) == {i \in 1..Len(pairs) : pairs[i][1] = k}

\* C30: after every sequence of set, get, get_mut, has, remove and clear, the
\* HashMap, BTreeMap and Vec stores returned from the last operation what the
\* map from QueryKey to entry returns, each holds under every key what the
\* map holds, has(k) is true exactly when get(k) is Some, and no store holds
\* two pairs of one key.
C30_Substitutable ==
    /\ stores.ret.hash = stores.ret.map
    /\ stores.ret.tree = stores.ret.map
    /\ stores.ret.vec = stores.ret.map
    /\ \A k \in CacheKeys :
         /\ HashMap_get(stores.hash, k) = stores.map[k]
         /\ BTreeMap_get(stores.tree, k) = stores.map[k]
         /\ Vec_get(stores.vec, k) = stores.map[k]
         /\ HashMap_get_mut(stores.hash, k) = stores.map[k]
         /\ BTreeMap_get_mut(stores.tree, k) = stores.map[k]
         /\ Vec_get_mut(stores.vec, k) = stores.map[k]
         /\ HashMap_has(stores.hash, k) <=> IsSome(HashMap_get(stores.hash, k))
         /\ BTreeMap_has(stores.tree, k) <=> IsSome(BTreeMap_get(stores.tree, k))
         /\ Vec_has(stores.vec, k) <=> IsSome(Vec_get(stores.vec, k))
         /\ Cardinality(Held(stores.vec, k)) <= 1
         /\ Cardinality(Held(stores.tree, k)) <= 1
         /\ \A slot \in 1..NumSlots :
              /\ Cardinality(Held(stores.hash[slot], k)) <= 1
              /\ Held(stores.hash[slot], k) # {} => slot = KeyHash(k)

\* C30's case: the keys of one name and two type tags hold different entries,
\* and the last operation removed a third key and returned its entry, leaving
\* those two.
C30_Witness ==
    /\ stores.op = "remove" /\ IsSome(stores.ret.vec)
    /\ stores.map[[key |-> "a", ty |-> "T"]] = Some(2)
    /\ stores.map[[key |-> "a", ty |-> "U"]] = Some(1)
    /\ stores.vec = <<(<<[key |-> "a", ty |-> "T"], 2>>), (<<[key |-> "a", ty |-> "U"], 1>>)>>
    /\ stores.ret.vec = Some(1)

\* what the client shows of the key k2 in the state s: whether it has an
\* entry, and the entry's value, time of last update and state
Shown(s, k2) ==
    IF IsSome(s.cache[k2])
    THEN <<s.queries[Unwrap(s.cache[k2])].last_value,
           s.queries[Unwrap(s.cache[k2])].updated_at,
           s.queries[Unwrap(s.cache[k2])].state>>
    ELSE <<>>

\* C31: fetch_query, refetch_query, set_query_data and remove_query_data on a
\* key k, and the completion of a fetch of k, leave the presence, value, time
\* of last update and state of the entry of every other key as they were;
\* remove_query_data(k) takes exactly k's entry out of the store and
\* clear_queries() every entry.
C31_KeyIsolation ==
    /\ \A k \in QueryKeys, T \in Types, v \in SetValues : \A k2 \in QueryKeys \ {k} :
         /\ Shown(QueryClient_fetch_query(St, k, T, Closure(St), None).st, k2) = Shown(St, k2)
         /\ Shown(QueryClient_refetch_query(St, k, T).st, k2) = Shown(St, k2)
         /\ Shown(QueryClient_set_query_data(St, k, T, v).st, k2) = Shown(St, k2)
         /\ Shown(QueryClient_remove_query_data(St, k).st, k2) = Shown(St, k2)
    /\ \A c \in 1..Len(calls), ok \in BOOLEAN, k2 \in QueryKeys :
         (/\ calls[c].pending /\ k2 # calls[c].key
          /\ runs[calls[c].run].pc = "running"
          /\ AttemptReturns(St, calls[c].run, ok).runs[calls[c].run].pc = "done")
         => Shown(Continue(AttemptReturns(St, calls[c].run, ok), c).st, k2) = Shown(St, k2)
    /\ \A k \in QueryKeys :
         /\ QueryClient_remove_query_data(St, k).st.cache = [cache EXCEPT ![k] = None]
         /\ QueryClient_remove_query_data(St, k).st.queries = queries
    /\ QueryClient_clear_queries(St).st.cache = [k \in QueryKeys |-> None]

\* C31's case: two keys have entries; one holds the value its fetch returned,
\* the other a value written by set_query_data after its own fetch.
C31_Witness ==
    \E k \in QueryKeys, k2 \in QueryKeys :
        /\ k # k2 /\ IsSome(cache[k]) /\ IsSome(cache[k2])
        /\ queries[Unwrap(cache[k])].state = Ready
        /\ queries[Unwrap(cache[k])].last_value = Some(AnyValue(k.ty, <<0, 1>>))
        /\ queries[Unwrap(cache[k2])].state = Ready
        /\ queries[Unwrap(cache[k2])].last_value = Some(AnyValue(k2.ty, <<2, 1>>))
        /\ \A c \in 1..Len(calls) : ~calls[c].pending

C33_QueryOptions == QueryOptions(Some(1), Some(2), Some(Policy(FALSE, 2, 1)))

\* C33 (as stated; the code violates it): the entry fetch_query_with_options
\* creates has the cache_time, the refetch_time and the retry policy of the
\* options given for the query where they are set, and the client's where
\* they are not.
C33_OptionPrecedence ==
    \A key \in QueryKeys, qopts \in {None, Some(C33_QueryOptions),
                                     Some(QueryOptions(Some(1), None, None))} :
        LET out == QueryClient_fetch_query(St, key, key.ty, Closure(St), qopts)
            arg(field) == IF IsSome(qopts) THEN Unwrap(qopts)[field] ELSE None
        IN  Len(out.st.queries) > Len(queries)
            => LET e == out.st.queries[Len(out.st.queries)]
               IN  /\ e.cache_time = Option_or(arg("cache_time"), options.cache_time)
                   /\ e.refetch_time = Option_or(arg("refetch_time"), options.refetch_time)
                   /\ e.retrier = Option_or(arg("retry"), options.retry)

\* C34: no suspended call holds a borrow of the cache store, so in every
\* reachable state neither the borrow() with which fetch_query, get_query_data
\* and the other readers begin, nor the borrow_mut() with which
\* refetch_query, set_query_data, remove_query_data and clear_queries begin,
\* panics.
C34_NoBorrowAcrossAwait ==
    /\ \A c \in 1..Len(calls) : calls[c].pending => calls[c].borrow = "none"
    /\ ~BorrowPanics(St, FALSE)
    /\ ~BorrowPanics(St, TRUE)

\* C34's case: a fetch_query and a refetch_query are suspended together, and
\* the key's entry has been removed from the store while they are.
C34_Witness ==
    /\ Len(calls) = 2
    /\ calls[1].op = "fetch_query" /\ calls[1].pending /\ calls[1].mode = "owner"
    /\ calls[2].op = "refetch_query" /\ calls[2].pending
    /\ calls[2].q = calls[1].q
    /\ cache[calls[1].key] = None

\* C35 (as stated; the code violates it): for a key with no entry or with an
\* entry of the key's type, has_query_data(key) is true exactly when
\* get_query_data for the key's type returns a value.
C35_HasQueryData ==
    \A key \in QueryKeys :
        (IsSome(cache[key]) => queries[Unwrap(cache[key])].type_id = key.ty)
        => (QueryClient_has_query_data(St, key)
            <=> QueryClient_get_query_data(St, key, key.ty).ok)

\* C36 (as stated; the code violates it): get_query_state(key) returns the
\* state of the key's entry whenever the key has an entry, and None only when
\* it has none.
C36_GetQueryState ==
    \A key \in QueryKeys :
        QueryClient_get_query_state(St, key)
          = IF IsSome(cache[key]) THEN Some(queries[Unwrap(cache[key])].state) ELSE None

\* C37 (as stated; the code violates it): when a suspended fetch_query of a
\* key, of the key's type, whose entry is still the key's entry, returns
\* Ok(v), as the call that started the fetch or as one that joined it, the
\* entry is Ready at that moment and get_query_data for the key returns v.
C37_ReadYourFetch ==
    \A c \in 1..Len(calls) :
        (/\ IsSome(options.cache_time)
         /\ calls[c].op = "fetch_query" /\ calls[c].pending
         /\ calls[c].ty = calls[c].key.ty
         /\ cache[calls[c].key] = Some(calls[c].q)
         /\ runs[calls[c].run].pc # "sleeping")
        => LET r == calls[c].run
               s0 == IF runs[r].pc = "running" THEN AttemptReturns(St, r, TRUE) ELSE St
               fin == Continue(s0, c)
           IN  (s0.runs[r].pc = "done" /\ fin.res.ok)
               => /\ fin.st.queries[calls[c].q].state = Ready
                  /\ QueryClient_get_query_data(fin.st, calls[c].key, calls[c].ty) = Ok(fin.res.val)

\* C38: when the entry of a key has been removed while a fetch of it is in
\* flight, the completion of the fetch, with a value or an error, and any tick
\* of the removed entry's scheduler leave the store as it is: contains_query
\* of the key stays false and get_query_data returns KeyNotFound, and a
\* fetch_query of the key after it creates a new entry.
C38_RemovalStands ==
    /\ \A c \in 1..Len(calls), ok \in BOOLEAN :
         (/\ calls[c].pending /\ calls[c].mode # "direct"
          /\ cache[calls[c].key] # Some(calls[c].q)
          /\ runs[calls[c].run].pc # "sleeping")
         => LET r == calls[c].run
                s0 == IF runs[r].pc = "running" THEN AttemptReturns(St, r, ok) ELSE St
                fin == Continue(s0, c)
            IN  s0.runs[r].pc = "done"
                => /\ fin.st.cache = cache
                   /\ cache[calls[c].key] = None
                      => /\ ~QueryClient_contains_query(fin.st, calls[c].key)
                         /\ QueryClient_get_query_data(fin.st, calls[c].key, calls[c].key.ty)
                              = Err(QueryError("KeyNotFound"))
                         /\ QueryClient_fetch_query(fin.st, calls[c].key, calls[c].key.ty,
                                                    Closure(fin.st), None).st.cache[calls[c].key]
                              = Some(Len(queries) + 1)
    /\ \A i \in 1..Len(intervals) :
         intervals[i].alive => Interval_wake(St, i).st.cache = cache

\* C38's case: a fetch_query is suspended with its fetch in flight, and the
\* entry it created has been removed from the store.
C38_Witness ==
    \E c \in 1..Len(calls) :
        /\ calls[c].op = "fetch_query" /\ calls[c].pending /\ calls[c].mode = "owner"
        /\ runs[calls[c].run].pc = "running"
        /\ cache[calls[c].key] = None
        /\ queries[calls[c].q].state = Loading

\* C39: when set_query_data(key, v) is called while a fetch of the key is in
\* flight, the entry is Ready and holds v while the fetch is still in flight,
\* and the return of a value by that fetch makes the entry Ready with the
\* fetched value in place of v.
C39_LastCompletionWins ==
    \A c \in 1..Len(calls), v \in SetValues :
        (/\ calls[c].op = "fetch_query" /\ calls[c].pending /\ calls[c].mode = "owner"
         /\ calls[c].ty = calls[c].key.ty
         /\ cache[calls[c].key] = Some(calls[c].q)
         /\ runs[calls[c].run].pc = "running")
        => LET key == calls[c].key
               q == calls[c].q
               r == calls[c].run
               written == AnyValue(key.ty, v)
               set == QueryClient_set_query_data(St, key, key.ty, v)
               s0 == AttemptReturns(set.st, r, TRUE)
               fin == Continue(s0, c)
           IN  /\ set.res.ok
               /\ set.st.calls[c].pending /\ set.st.runs[r].pc = "running"
               /\ set.st.queries[q].state = Ready
               /\ set.st.queries[q].last_value = Some(written)
               /\ s0.runs[r].pc = "done"
                  => /\ fin.res.ok
                     /\ fin.st.queries[q].state = Ready
                     /\ fin.st.queries[q].last_value = Some(fin.res.val)
                     /\ fin.res.val # written
                     /\ fin.st.queries[q].updated_at = Some(now)

\* C39's case: a fetch_query that started a fetch has returned its value, a
\* value was written to the entry by set_query_data after the fetch started,
\* and the entry holds the fetched value.
C39_Witness ==
    \E c \in 1..Len(calls) :
        /\ calls[c].op = "fetch_query" /\ ~calls[c].pending /\ calls[c].mode = "owner"
        /\ calls[c].res.ok
        /\ cache[calls[c].key] = Some(calls[c].q)
        /\ queries[calls[c].q].future_or_value
             = ValueFuture(AnyValue(calls[c].key.ty, <<0, 1>>))
        /\ queries[calls[c].q].state = Ready
        /\ queries[calls[c].q].last_value = Some(calls[c].res.val)
====
